---- MODULE Spec2Model ----
(***************************************************************************)
(* Model of jtpeller/cliques: the word graph (graph.py), the clique search *)
(* (clique.py) and the helper pop_without_remove (util.py).                *)
(*                                                                         *)
(* A word is a sequence of one-character strings.  A node index is the     *)
(* 0-based Python list index; the node with index i is nodes[i + 1].       *)
(* Python iterates a set of small non-negative ints in ascending order     *)
(* (hash(i) = i, no collisions below the table size); the model fixes that *)
(* order, and no property stated below depends on it.                      *)
(***************************************************************************)
EXTENDS Integers, Sequences, FiniteSets, TLC

(***************************************************************************)
(* Program constants.                                                      *)
(***************************************************************************)
MAX_LEN == 26

max_fuzzy == 3

\* vowels_left = "aeiou" (graph.py:100), as a sequence of characters
VOWELS == <<"a", "e", "i", "o", "u">>

\* the characters str.strip() removes that the inputs below use
Whitespace == {" ", "\n"}

\* the value Python's None is modelled by where an index is expected
None == -1

(***************************************************************************)
(* Bounds of the model.                                                    *)
(***************************************************************************)
\* longest word list drawn freely (any order, repeats allowed) from SmallPool
MaxWords == 3

(***************************************************************************)
(* Input words.                                                            *)
(***************************************************************************)
Alphabet ==
    << "a", "b", "c", "d", "e", "f", "g", "h", "i", "j", "k", "l", "m",
       "n", "o", "p", "q", "r", "s", "t", "u", "v", "w", "x", "y", "z",
       "A", "B", "C", "D", "E", "F", "G", "H", "I", "J", "K", "L", "M",
       "N", "O", "P", "Q", "R", "S", "T", "U", "V", "W", "X", "Y", "Z" >>

\* the word of n consecutive characters of Alphabet starting at position s
Run(s, n) == [i \in 1..n |-> Alphabet[s + i - 1]]

\* the words drawn freely: a-m, n-z, and "a" with and without a line end
SmallPool == { Run(1, 13), Run(14, 13), <<"a">>, <<"a", "\n">> }

\* length 13 (cliques of 2): a-m, n-z, A-M, a-m again, g-s
Words13 == << Run(1, 13), Run(14, 13), Run(27, 13), Run(1, 13), Run(7, 13) >>

\* length 7 (cliques of 3): a-g, h-n, o-u, v-B, C-I pairwise disjoint, and e-k
Words7 == << Run(1, 7), Run(8, 7), Run(15, 7), Run(22, 7), Run(29, 7), Run(5, 7) >>

\* length 6 (cliques of 4): a-f, g-l, m-r, s-x, defyzA, and g-l with a line end
Words6 ==
    << Run(1, 6), Run(7, 6), Run(13, 6), Run(19, 6), Run(4, 3) \o Run(25, 3),
       Run(7, 6) \o <<"\n">> >>

\* length 5 (cliques of 5): a-e, f-j, k-o, p-t, u-y, and cdezA
Words5 ==
    << Run(1, 5), Run(6, 5), Run(11, 5), Run(16, 5), Run(21, 5), Run(3, 3) \o Run(26, 2) >>

\* length 4 (cliques of 6): abcd, efgh, ijkl, mnop, qrst, uvwx, and cdyz
Words4 ==
    << Run(1, 4), Run(5, 4), Run(9, 4), Run(13, 4), Run(17, 4), Run(21, 4),
       Run(3, 2) \o Run(25, 2) >>

\* length 3 (cliques of 8): eight pairwise disjoint words
Words3 ==
    << Run(1, 3), Run(4, 3), Run(7, 3), Run(10, 3), Run(13, 3), Run(16, 3),
       Run(19, 3), Run(22, 3) >>

\* length 3 with shared vowels and consonants: abc ade afg ahi ajk bxy
Vowels3 ==
    << <<"a", "b", "c">>, <<"a", "d", "e">>, <<"a", "f", "g">>, <<"a", "h", "i">>,
       <<"a", "j", "k">>, <<"b", "x", "y">> >>

\* lengths 0, 1 and 2: a, b, e, an empty line, aa, bc
ShortWords == << <<"a">>, <<"b">>, <<"e">>, <<"\n">>, <<"a", "a">>, <<"b", "c">> >>

\* lengths 14 and 26 (one word per clique)
LongWords == << Run(1, 14), Run(1, 26) >>

\* length 13 (cliques of 2): a-m and an-y, whose only shared letter is "a"
FuzzyWords13 == << Run(1, 13), <<"a">> \o Run(14, 12) >>

\* length 2 in mixed case: aA, bB with a line end, cd, Dc
CaseWords == << <<"a", "A">>, <<"b", "B", "\n">>, <<"c", "d">>, <<"D", "c">> >>

Families ==
    { Words13, Words7, Words6, Words5, Words4, Words3, Vowels3, ShortWords, LongWords,
      FuzzyWords13, CaseWords }

\* the subsequence of list s at the positions in P, in the order of s
RECURSIVE Pick(_, _)
Pick(s, P) ==
    IF s = <<>> THEN <<>>
    ELSE (IF Len(s) \in P THEN Pick(SubSeq(s, 1, Len(s) - 1), P) \o <<s[Len(s)]>>
          ELSE Pick(SubSeq(s, 1, Len(s) - 1), P))

\* every word list the model is run on: every subsequence of a family, and
\* every sequence of at most MaxWords words of SmallPool
WordLists ==
    UNION { { Pick(f, P) : P \in SUBSET DOMAIN f } : f \in Families }
        \cup UNION { [1..n -> SmallPool] : n \in 0..MaxWords }

(***************************************************************************)
(* util.py and the Python built-ins the code uses.                         *)
(***************************************************************************)
\* str.strip(): the word without its leading and trailing whitespace
RECURSIVE strip(_)
strip(word) ==
    IF word = <<>> THEN word
    ELSE IF Head(word) \in Whitespace THEN strip(Tail(word))
    ELSE IF word[Len(word)] \in Whitespace THEN strip(SubSeq(word, 1, Len(word) - 1))
    ELSE word

\* set(word): the characters of the word, case kept
set(word) == { word[p] : p \in DOMAIN word }

\* `for x in s` over a set of indices: its elements in ascending order
RECURSIVE Iter(_)
Iter(s) ==
    IF s = {} THEN <<>>
    ELSE LET m == CHOOSE x \in s : \A y \in s : x <= y
         IN  <<m>> \o Iter(s \ {m})

\* the concatenation of a sequence of sequences, in order
RECURSIVE Flatten(_)
Flatten(ss) == IF ss = <<>> THEN <<>> ELSE Head(ss) \o Flatten(Tail(ss))

\* seq[i] with Python's indexing: 0-based, a negative i counts from the end
PyIndex(seq, i) == IF i >= 0 THEN seq[i + 1] ELSE seq[Len(seq) + i + 1]

\* c in s, for a one-character c and a string s
InStr(c, s) == \E p \in DOMAIN s : s[p] = c

\* s.replace(c, ""): a new string; s itself is not changed
StrReplace(s, c) == SelectSeq(s, LAMBDA x : x # c)

\* pop_without_remove(s): an element of the set, None for an empty one; the
\* graph applies it to one-element sets only
pop_without_remove(s) == IF Cardinality(s) <= 0 THEN "None" ELSE CHOOSE x \in s : TRUE

(***************************************************************************)
(* word_node.py and graph.py.                                              *)
(***************************************************************************)
WordNode(word, neighbors, char_set) ==
    [word |-> word, char_set |-> char_set, neighbors |-> neighbors]

\* Graph._init_nodes: the nodes of the words kept, in input order
RECURSIVE _init_nodes(_, _)
_init_nodes(words, length) ==
    IF words = <<>> THEN <<>>
    ELSE LET word == strip(Head(words))
             char_set == set(word)
             rest == _init_nodes(Tail(words), length)
         IN  IF Len(word) # length THEN rest
             ELSE IF Cardinality(char_set) # length THEN rest
             ELSE <<WordNode(word, {}, char_set)>> \o rest

\* Graph._get_word_index: the index of the first node holding the word
_get_word_index(nodes, word) ==
    IF \E p \in DOMAIN nodes : nodes[p].word = word
    THEN (CHOOSE p \in DOMAIN nodes :
              /\ nodes[p].word = word
              /\ \A q \in DOMAIN nodes : nodes[q].word = word => p <= q) - 1
    ELSE None

\* the inner loop of compute_graph for one node, from the j-th node on; st
\* holds the node's neighbors, n_fuzzy and vowels_left
RECURSIVE neighbor_loop(_, _, _, _, _)
neighbor_loop(nodes, fuzzy, char_set, j, st) ==
    IF j > Len(nodes) THEN st
    ELSE LET intersection == char_set \cap nodes[j].char_set
             idx == _get_word_index(nodes, nodes[j].word)
         IN  IF Cardinality(intersection) = 0
             THEN neighbor_loop(nodes, fuzzy, char_set, j + 1,
                      [st EXCEPT !.neighbors = @ \cup {idx}])
             ELSE IF /\ fuzzy
                     /\ Cardinality(intersection) = 1
                     /\ InStr(pop_without_remove(intersection), st.vowels_left)
                     /\ st.n_fuzzy < max_fuzzy
             THEN LET discarded == StrReplace(st.vowels_left, pop_without_remove(intersection))
                  IN  neighbor_loop(nodes, fuzzy, char_set, j + 1,
                          [neighbors |-> st.neighbors \cup {idx},
                           vowels_left |-> st.vowels_left,
                           n_fuzzy |-> st.n_fuzzy + 1])
             ELSE neighbor_loop(nodes, fuzzy, char_set, j + 1, st)

\* Graph.compute_graph: every node's neighbors, added to those it has
compute_graph(nodes, fuzzy) ==
    [p \in DOMAIN nodes |->
        [nodes[p] EXCEPT !.neighbors =
            neighbor_loop(nodes, fuzzy, nodes[p].char_set, 1,
                [neighbors |-> @, n_fuzzy |-> 0, vowels_left |-> VOWELS]).neighbors]]

\* an argument that is an int, and one that is not (4.2, "5", None)
IntArg(v) == [isint |-> TRUE, v |-> v]
NotIntArg == [isint |-> FALSE, v |-> 0]

\* the error checks with `len(words) <= 1` for `len(words) <= 0`
GraphRaisesOnOneWord(words, length) ==
    \/ Len(words) <= 1
    \/ ~length.isint

\* Graph.__init__: the error checks; TRUE when the constructor raises
GraphRaises(words, length) ==
    \/ Len(words) <= 0
    \/ ~length.isint

\* Graph.__init__: the object constructed
Graph(words, length, fuzzy) ==
    [words |-> words, fuzzy |-> fuzzy, length |-> length.v,
     nodes |-> _init_nodes(words, length.v)]

(***************************************************************************)
(* clique.py: the clique search.  A search returns [cl, raised]: the list  *)
(* of cliques it appended to, and whether it ended by raising ValueError.  *)
(***************************************************************************)
\* _clique_loop_end without its `if r < prev: continue`
_clique_loop_end_any_order(cl, prev_idx, prev_n) ==
    LET kept == Iter(prev_n)
    IN  cl \o [x \in DOMAIN kept |-> Append(prev_idx, kept[x])]

\* Clique._clique_loop_end: cl with prev_idx + [r] appended for every r of
\* prev_n that is not below the last index of prev_idx
_clique_loop_end(cl, prev_idx, prev_n) ==
    LET prev == PyIndex(prev_idx, -1)
        kept == SelectSeq(Iter(prev_n), LAMBDA r : ~(r < prev))
    IN  cl \o [x \in DOMAIN kept |-> Append(prev_idx, kept[x])]

\* Clique._two_clique
_two_clique(nodes) ==
    [cl |-> Flatten([p \in DOMAIN nodes |->
                _clique_loop_end(<<>>, <<p - 1>>, nodes[p].neighbors)]),
     raised |-> FALSE]

\* line 184 without its effect: no candidate is skipped
layer_never_skips(n, prev_idx, next_idx) == FALSE

\* Clique._clique_layer_t, line 184: the candidate is below the index the
\* layer compares it with, and is skipped
layer_skips(n, prev_idx, next_idx) == next_idx < PyIndex(prev_idx, (n - 2) - 1)

\* Clique._clique_layer_t: the error check (n is always an int here; a
\* negative n raises ValueError), then the loop over prev_n, of which todo
\* are the candidates still to visit.  The warning for n > 8 only logs.
RECURSIVE _clique_layer_t(_, _, _, _, _)
RECURSIVE clique_layer_loop(_, _, _, _, _, _)
_clique_layer_t(nodes, n, prev_idx, prev_n, cl) ==
    IF n < 0 THEN [cl |-> cl, raised |-> TRUE]
    ELSE clique_layer_loop(nodes, n, prev_idx, prev_n, Iter(prev_n), cl)

clique_layer_loop(nodes, n, prev_idx, prev_n, todo, cl) ==
    IF todo = <<>> THEN [cl |-> cl, raised |-> FALSE]
    ELSE LET next_idx == Head(todo)
             next_n == prev_n \cap nodes[next_idx + 1].neighbors
             cl1 == IF n - 2 = 1
                    THEN _clique_loop_end(cl, Append(prev_idx, next_idx), next_n)
                    ELSE cl
         IN  IF layer_skips(n, prev_idx, next_idx)
             THEN clique_layer_loop(nodes, n, prev_idx, prev_n, Tail(todo), cl)
             ELSE IF Cardinality(next_n) < n - 2
             THEN clique_layer_loop(nodes, n, prev_idx, prev_n, Tail(todo), cl1)
             ELSE LET deeper == _clique_layer_t(nodes, n - 1,
                                    Append(prev_idx, next_idx), next_n, cl1)
                  IN  IF deeper.raised THEN deeper
                      ELSE clique_layer_loop(nodes, n, prev_idx, prev_n,
                               Tail(todo), deeper.cl)

\* Clique._three_clique: the loop over the nodes from the p-th on
RECURSIVE three_clique_loop(_, _, _)
three_clique_loop(nodes, p, cl) ==
    IF p > Len(nodes) THEN [cl |-> cl, raised |-> FALSE]
    ELSE LET layer == _clique_layer_t(nodes, 3, <<p - 1>>, nodes[p].neighbors, cl)
         IN  IF layer.raised THEN layer
             ELSE three_clique_loop(nodes, p + 1, layer.cl)

\* Clique._three_clique
_three_clique(nodes) == three_clique_loop(nodes, 1, <<>>)

\* Clique._four_clique
_four_clique(nodes) ==
    LET N(x) == nodes[x + 1].neighbors
        for_k(i, j, nij) ==
            Flatten([x \in DOMAIN Iter(nij) |->
                LET k == Iter(nij)[x]
                IN  IF k < j THEN <<>>
                    ELSE _clique_loop_end(<<>>, <<i, j, k>>, nij \cap N(k))])
        for_j(i) ==
            Flatten([x \in DOMAIN Iter(N(i)) |->
                LET j == Iter(N(i))[x]
                    nij == N(i) \cap N(j)
                IN  IF j < i THEN <<>>
                    ELSE IF Cardinality(nij) < 2 THEN <<>>
                    ELSE for_k(i, j, nij)])
    IN  [cl |-> Flatten([p \in DOMAIN nodes |-> for_j(p - 1)]), raised |-> FALSE]

\* Clique._five_clique
_five_clique(nodes) ==
    LET N(x) == nodes[x + 1].neighbors
        for_l(i, j, k, nijk) ==
            Flatten([x \in DOMAIN Iter(nijk) |->
                LET l == Iter(nijk)[x]
                    nijkl == nijk \cap N(l)
                IN  IF l < k THEN <<>>
                    ELSE IF Cardinality(nijkl) < 1 THEN <<>>
                    ELSE _clique_loop_end(<<>>, <<i, j, k, l>>, nijkl)])
        for_k(i, j, nij) ==
            Flatten([x \in DOMAIN Iter(nij) |->
                LET k == Iter(nij)[x]
                    nijk == nij \cap N(k)
                IN  IF k < j THEN <<>>
                    ELSE IF Cardinality(nijk) < 2 THEN <<>>
                    ELSE for_l(i, j, k, nijk)])
        for_j(i) ==
            Flatten([x \in DOMAIN Iter(N(i)) |->
                LET j == Iter(N(i))[x]
                    nij == N(i) \cap N(j)
                IN  IF j < i THEN <<>>
                    ELSE IF Cardinality(nij) < 3 THEN <<>>
                    ELSE for_k(i, j, nij)])
    IN  [cl |-> Flatten([p \in DOMAIN nodes |-> for_j(p - 1)]), raised |-> FALSE]

\* Clique._six_clique
_six_clique(nodes) ==
    LET N(x) == nodes[x + 1].neighbors
        for_m(i, j, k, l, nijkl) ==
            Flatten([x \in DOMAIN Iter(nijkl) |->
                LET m == Iter(nijkl)[x]
                IN  IF m < l THEN <<>>
                    ELSE _clique_loop_end(<<>>, <<i, j, k, l, m>>, nijkl \cap N(m))])
        for_l(i, j, k, nijk) ==
            Flatten([x \in DOMAIN Iter(nijk) |->
                LET l == Iter(nijk)[x]
                    nijkl == nijk \cap N(l)
                IN  IF l < k THEN <<>>
                    ELSE IF Cardinality(nijkl) < 2 THEN <<>>
                    ELSE for_m(i, j, k, l, nijkl)])
        for_k(i, j, nij) ==
            Flatten([x \in DOMAIN Iter(nij) |->
                LET k == Iter(nij)[x]
                    nijk == nij \cap N(k)
                IN  IF k < j THEN <<>>
                    ELSE IF Cardinality(nijk) < 3 THEN <<>>
                    ELSE for_l(i, j, k, nijk)])
        for_j(i) ==
            Flatten([x \in DOMAIN Iter(N(i)) |->
                LET j == Iter(N(i))[x]
                    nij == N(i) \cap N(j)
                IN  IF j < i THEN <<>>
                    ELSE IF Cardinality(nij) < 4 THEN <<>>
                    ELSE for_k(i, j, nij)])
    IN  [cl |-> Flatten([p \in DOMAIN nodes |-> for_j(p - 1)]), raised |-> FALSE]

\* int(self.MAX_LEN / length): the number of words of a clique
num_words(length) == MAX_LEN \div length

\* Clique._get_clique_list
_get_clique_list(nodes, length) ==
    CASE num_words(length) = 2 -> _two_clique(nodes)
      [] num_words(length) = 3 -> _three_clique(nodes)
      [] num_words(length) = 4 -> _four_clique(nodes)
      [] num_words(length) = 5 -> _five_clique(nodes)
      [] num_words(length) = 6 -> _six_clique(nodes)
      [] OTHER -> [cl |-> <<>>, raised |-> FALSE]

\* Clique._get_word_repr: the words of every clique, position by position
_get_word_repr(cliques, nodes) ==
    [c \in DOMAIN cliques |->
        [x \in DOMAIN cliques[c] |-> nodes[cliques[c][x] + 1].word]]

\* line 65 with 13 (the longest length with a clique of two) for 26
ValidLengthUpTo13(length) == ~(~length.isint \/ length.v <= 0 \/ length.v > 13)

\* Clique.compute_cliques, line 65: the length passes the error check
ValidLength(length) == ~(~length.isint \/ length.v <= 0 \/ length.v > 26)

(***************************************************************************)
(* The state: one Clique object (words, fuzzy, and the attributes          *)
(* compute_cliques assigns; assigned names those that exist), one Graph    *)
(* object g built directly, the last call made and what it raised, and    *)
(* how the compute_cliques call before the last one ended.                 *)
(***************************************************************************)
VARIABLES words, fuzzy, length, graph, nodes, cliques, word_cliques, assigned,
          g, call, raised, earlier

vars == <<words, fuzzy, length, graph, nodes, cliques, word_cliques, assigned,
          g, call, raised, earlier>>

\* how the last call ended, as the next call will remember it
Outcome ==
    IF call.op # "compute_cliques" THEN "none"
    ELSE IF raised = "" THEN "returned" ELSE "raised"

\* the value of a Graph attribute not assigned yet, and of g when the
\* constructor raised
NoGraph == [words |-> <<>>, fuzzy |-> FALSE, length |-> 0, nodes |-> <<>>]

\* the lengths compute_cliques is called with
LengthArgs == { IntArg(v) : v \in {0, 3, 4, 5, 6, 7, 13, 14, 26, 27} } \cup {NotIntArg}

\* the lengths a Graph is constructed with
GraphLengthArgs == { IntArg(v) : v \in {0, 1, 2, 3, 4, 7, 13} } \cup {NotIntArg}

\* Clique.__init__
Init ==
    /\ words \in WordLists
    /\ fuzzy \in BOOLEAN
    /\ length = 0
    /\ graph = NoGraph
    /\ nodes = <<>>
    /\ cliques = <<>>
    /\ word_cliques = <<>>
    /\ assigned = {}
    /\ g = NoGraph
    /\ call = [op |-> "Clique", length |-> NotIntArg]
    /\ raised = ""
    /\ earlier = "none"

\* compute_cliques with `self.length = length` moved above the error check
compute_cliques_saves_first(arg) ==
    /\ call' = [op |-> "compute_cliques", length |-> arg]
    /\ earlier' = Outcome
    /\ IF ~ValidLength(arg)
       THEN /\ raised' = "ValueError"
            /\ length' = arg.v
            /\ assigned' = assigned \cup {"length"}
            /\ UNCHANGED <<graph, nodes, cliques, word_cliques>>
       ELSE IF GraphRaises(words, arg)
       THEN /\ raised' = "ValueError"
            /\ length' = arg.v
            /\ assigned' = assigned \cup {"length"}
            /\ UNCHANGED <<graph, nodes, cliques, word_cliques>>
       ELSE LET made == Graph(words, arg, FALSE)
                built == [made EXCEPT !.nodes = compute_graph(made.nodes, made.fuzzy)]
                found == _get_clique_list(built.nodes, arg.v)
            IN  /\ length' = arg.v
                /\ graph' = built
                /\ nodes' = built.nodes
                /\ IF found.raised
                   THEN /\ raised' = "ValueError"
                        /\ assigned' = assigned \cup {"length", "graph", "nodes"}
                        /\ UNCHANGED <<cliques, word_cliques>>
                   ELSE /\ raised' = ""
                        /\ cliques' = found.cl
                        /\ word_cliques' = _get_word_repr(found.cl, built.nodes)
                        /\ assigned' = {"length", "graph", "nodes", "cliques", "word_cliques"}
    /\ UNCHANGED <<words, fuzzy, g>>

\* compute_cliques with the cliques found appended to those a previous call left
compute_cliques_appends(arg) ==
    /\ call' = [op |-> "compute_cliques", length |-> arg]
    /\ earlier' = Outcome
    /\ IF ~ValidLength(arg)
       THEN /\ raised' = "ValueError"
            /\ UNCHANGED <<length, graph, nodes, cliques, word_cliques, assigned>>
       ELSE IF GraphRaises(words, arg)
       THEN /\ raised' = "ValueError"
            /\ length' = arg.v
            /\ assigned' = assigned \cup {"length"}
            /\ UNCHANGED <<graph, nodes, cliques, word_cliques>>
       ELSE LET made == Graph(words, arg, FALSE)
                built == [made EXCEPT !.nodes = compute_graph(made.nodes, made.fuzzy)]
                found == _get_clique_list(built.nodes, arg.v)
            IN  /\ length' = arg.v
                /\ graph' = built
                /\ nodes' = built.nodes
                /\ IF found.raised
                   THEN /\ raised' = "ValueError"
                        /\ assigned' = assigned \cup {"length", "graph", "nodes"}
                        /\ UNCHANGED <<cliques, word_cliques>>
                   ELSE /\ raised' = ""
                        /\ cliques' = cliques \o found.cl
                        /\ word_cliques' = _get_word_repr(found.cl, built.nodes)
                        /\ assigned' = {"length", "graph", "nodes", "cliques", "word_cliques"}
    /\ UNCHANGED <<words, fuzzy, g>>

\* Clique.compute_cliques
compute_cliques(arg) ==
    /\ call' = [op |-> "compute_cliques", length |-> arg]
    /\ earlier' = Outcome
    /\ IF ~ValidLength(arg)
       THEN /\ raised' = "ValueError"
            /\ UNCHANGED <<length, graph, nodes, cliques, word_cliques, assigned>>
       ELSE IF GraphRaises(words, arg)
       THEN /\ raised' = "ValueError"
            /\ length' = arg.v
            /\ assigned' = assigned \cup {"length"}
            /\ UNCHANGED <<graph, nodes, cliques, word_cliques>>
       ELSE LET made == Graph(words, arg, FALSE)
                built == [made EXCEPT !.nodes = compute_graph(made.nodes, made.fuzzy)]
                found == _get_clique_list(built.nodes, arg.v)
            IN  /\ length' = arg.v
                /\ graph' = built
                /\ nodes' = built.nodes
                /\ IF found.raised
                   THEN /\ raised' = "ValueError"
                        /\ assigned' = assigned \cup {"length", "graph", "nodes"}
                        /\ UNCHANGED <<cliques, word_cliques>>
                   ELSE /\ raised' = ""
                        /\ cliques' = found.cl
                        /\ word_cliques' = _get_word_repr(found.cl, built.nodes)
                        /\ assigned' = {"length", "graph", "nodes", "cliques", "word_cliques"}
    /\ UNCHANGED <<words, fuzzy, g>>

Next == \E arg \in LengthArgs : compute_cliques(arg)

Spec == Init /\ [][Next]_vars

\* Graph.__init__, called directly
InitGraph ==
    /\ words = <<>>
    /\ fuzzy = FALSE
    /\ length = 0
    /\ graph = NoGraph
    /\ nodes = <<>>
    /\ cliques = <<>>
    /\ word_cliques = <<>>
    /\ assigned = {}
    /\ earlier = "none"
    /\ \E ws \in WordLists, len \in GraphLengthArgs, fz \in BOOLEAN :
          /\ call = [op |-> "Graph", length |-> len]
          /\ IF GraphRaises(ws, len)
             THEN g = NoGraph /\ raised = "ValueError"
             ELSE g = Graph(ws, len, fz) /\ raised = ""

\* Graph.compute_graph, called directly
GraphComputeGraph ==
    /\ g # NoGraph
    /\ g' = [g EXCEPT !.nodes = compute_graph(g.nodes, g.fuzzy)]
    /\ call' = [op |-> "compute_graph", length |-> IntArg(g.length)]
    /\ raised' = ""
    /\ UNCHANGED <<words, fuzzy, length, graph, nodes, cliques, word_cliques, assigned,
                   earlier>>

NextGraph == GraphComputeGraph

SpecGraph == InitGraph /\ [][NextGraph]_vars

(***************************************************************************)
(* Properties.                                                             *)
(***************************************************************************)
\* the elements of a sequence
Range(seq) == { seq[p] : p \in DOMAIN seq }

\* the last call was compute_cliques and it returned
Returned == call.op = "compute_cliques" /\ raised = ""

\* an argument that is an integer in 1..26
InRange(arg) == arg.isint /\ arg.v \in 1..26

\* the last call was compute_cliques with an integer in 1..26
CalledInRange == call.op = "compute_cliques" /\ InRange(call.length)

\* the word passes the filter for length L: L characters once trimmed, none twice
Survives(word, L) ==
    /\ Len(strip(word)) = L
    /\ \A p, q \in DOMAIN strip(word) : strip(word)[p] = strip(word)[q] => p = q

\* every strictly increasing k-tuple of indices of ns whose later indices
\* are neighbors of every earlier one
AllCliques(ns, k) ==
    { Iter(S) : S \in { T \in SUBSET (0..(Len(ns) - 1)) :
                          /\ Cardinality(T) = k
                          /\ \A a, b \in T : a < b => b \in ns[a + 1].neighbors } }

\* C1: every tuple compute_cliques emits has exactly k = floor(26/L) indices,
\* they are strictly increasing, and for positions a < b the later index is a
\* neighbor of the earlier one.
C1_EmittedAreCliques ==
    (Returned /\ num_words(length) >= 2) =>
        \A c \in DOMAIN cliques :
            /\ Len(cliques[c]) = num_words(length)
            /\ \A a, b \in DOMAIN cliques[c] :
                   a < b => /\ cliques[c][a] < cliques[c][b]
                            /\ cliques[c][b] \in nodes[cliques[c][a] + 1].neighbors

\* a search for cliques of six words that emitted two of them
C1_Witness == Returned /\ num_words(length) = 6 /\ Len(cliques) >= 2

\* C2 (as claimed): for every length L with k = floor(26/L) >= 2, the result
\* of the search holds every strictly increasing k-tuple of indices in which
\* each later index is a neighbor of each earlier one.
C2_SearchComplete ==
    (Returned /\ num_words(length) >= 2) =>
        AllCliques(nodes, num_words(length)) \subseteq Range(cliques)

\* C3: the list one compute_cliques call returns holds no two tuples over the
\* same set of indices, for clique sizes 2 to 6.
C3_NoDuplicateCliques ==
    (Returned /\ num_words(length) \in 2..6) =>
        \A c, d \in DOMAIN cliques :
            c # d => Range(cliques[c]) # Range(cliques[d])

\* a search for cliques of three words that emitted at least three
C3_Witness == Returned /\ num_words(length) = 3 /\ Len(cliques) >= 3

\* C4 (as claimed, for cliques of at least two words; a clique of one word
\* is C5's case): a word list of exactly k = floor(26/L) pairwise
\* letter-disjoint words of length L yields exactly the clique (0, ..., k-1).
C4_DisjointWordsOneClique ==
    ( /\ CalledInRange
      /\ num_words(length) >= 2
      /\ Len(words) = num_words(length)
      /\ \A p \in DOMAIN words : Survives(words[p], length)
      /\ \A p, q \in DOMAIN words : p # q => set(words[p]) \cap set(words[q]) = {} )
    => /\ raised = ""
       /\ cliques = << [x \in 1..num_words(length) |-> x - 1] >>

C6_EmptyInputIsNormal ==
    ( /\ CalledInRange
      /\ \A p \in DOMAIN words : ~Survives(words[p], call.length.v) )
    => /\ raised = ""
       /\ cliques = <<>>
       /\ word_cliques = <<>>

\* C6 (amended): with words supplied but none surviving the filter for a
\* valid length, compute_cliques raises nothing and ends with no nodes and
\* no cliques; with no words supplied it raises ValueError.
C6_NoSurvivorIsNormal ==
    /\ ( /\ CalledInRange
         /\ words # <<>>
         /\ \A p \in DOMAIN words : ~Survives(words[p], call.length.v) )
       => /\ raised = ""
          /\ nodes = <<>>
          /\ cliques = <<>>
          /\ word_cliques = <<>>
          /\ {"cliques", "word_cliques"} \subseteq assigned
    /\ (CalledInRange /\ words = <<>>) => raised = "ValueError"

\* compute_cliques returned for a length no supplied word has
C6_Witness ==
    /\ Returned
    /\ Len(words) >= 2
    /\ \A p \in DOMAIN words : ~Survives(words[p], call.length.v)
    /\ num_words(length) \in 2..6

\* C7: compute_cliques with a length that is not an integer in 1..26 raises
\* and leaves length, graph, nodes, cliques and word_cliques as they were.
C7_InvalidLengthFailsFast ==
    [][ (call'.op = "compute_cliques" /\ ~InRange(call'.length)) =>
            /\ raised' = "ValueError"
            /\ UNCHANGED <<length, graph, nodes, cliques, word_cliques, assigned>> ]_vars

\* an invalid length was rejected after a call that had found cliques
C7_Witness ==
    /\ call.op = "compute_cliques"
    /\ ~InRange(call.length)
    /\ raised = "ValueError"
    /\ "cliques" \in assigned
    /\ cliques # <<>>

\* C8 (as claimed): in strict mode, after compute_graph, neighbors are
\* letter-disjoint and the neighbor relation is symmetric.
C8_StrictDisjointSymmetric ==
    (call.op = "compute_graph" /\ ~g.fuzzy) =>
        \A i, j \in DOMAIN g.nodes :
            /\ (j - 1) \in g.nodes[i].neighbors =>
                   g.nodes[i].char_set \cap g.nodes[j].char_set = {}
            /\ (j - 1) \in g.nodes[i].neighbors <=> (i - 1) \in g.nodes[j].neighbors

\* C9 (as claimed, for lengths of at least 1): after compute_graph no node is
\* its own neighbor, in strict and in fuzzy mode, and every neighbor is an
\* index of the node list.
C9_NoSelfLoops ==
    (call.op = "compute_graph" /\ g.length >= 1) =>
        \A i \in DOMAIN g.nodes :
            /\ (i - 1) \notin g.nodes[i].neighbors
            /\ g.nodes[i].neighbors \subseteq 0..(Len(g.nodes) - 1)

\* C10 (as claimed): in fuzzy mode the neighbors of a node that share a
\* letter with it are at most 3, each shares exactly one letter, a vowel,
\* and no two of them share the same vowel with the node.
C10_FuzzyBudgetDistinctVowels ==
    (call.op = "compute_graph" /\ g.fuzzy) =>
        \A i \in DOMAIN g.nodes :
            LET shared(j) == g.nodes[i].char_set \cap g.nodes[j].char_set
                matched == { j \in DOMAIN g.nodes :
                               /\ (j - 1) \in g.nodes[i].neighbors
                               /\ shared(j) # {} }
            IN  /\ Cardinality(matched) <= 3
                /\ \A j \in matched :
                       /\ Cardinality(shared(j)) = 1
                       /\ shared(j) \subseteq {"a", "e", "i", "o", "u"}
                /\ \A j1, j2 \in matched : j1 # j2 => shared(j1) # shared(j2)

\* C11 (as claimed): the nodes a returning compute_cliques call leaves on the
\* object have the neighbors the adjacency rule gives under the fuzzy flag
\* the Clique was constructed with, and the cliques it emits are those the
\* search finds in that graph.
C11_GraphBuiltWithGivenFuzzy ==
    Returned =>
        LET built == compute_graph(_init_nodes(words, length), fuzzy)
        IN  /\ nodes = built
            /\ cliques = _get_clique_list(built, length).cl

\* the lower-case form of a character
lower(ch) ==
    IF \E p \in 27..52 : Alphabet[p] = ch
    THEN Alphabet[(CHOOSE p \in 27..52 : Alphabet[p] = ch) - 26]
    ELSE ch

\* the word, once trimmed, has L characters and no letter twice when letters
\* are compared without regard to case
DistinctIgnoringCase(word, L) ==
    /\ Len(strip(word)) = L
    /\ \A p, q \in DOMAIN strip(word) :
           lower(strip(word)[p]) = lower(strip(word)[q]) => p = q

\* C12 (as claimed): the nodes of a constructed Graph are, in input order,
\* the trimmed input words of length L with no letter twice when letters are
\* compared case-insensitively, and every node has a letter set of exactly L
\* letters.
C12_FilterIgnoresCase ==
    (call.op = "Graph" /\ raised = "") =>
        LET keep(word) == DistinctIgnoringCase(word, g.length)
            kept == SelectSeq(g.words, keep)
        IN  /\ [p \in DOMAIN g.nodes |-> g.nodes[p].word]
                   = [p \in DOMAIN kept |-> strip(kept[p])]
            /\ \A p \in DOMAIN g.nodes :
                   Cardinality(g.nodes[p].char_set) = g.length

\* C13: whatever calls came before it on the same object, a compute_cliques
\* call with a length in 1..26 ends as a call on a fresh object with the same
\* words does: it raises exactly when that one raises, and when it returns
\* it leaves the same set of cliques, with word_cliques holding, position by
\* position, the word each index of each clique stands for.
C13_RepeatableTransform ==
    CalledInRange =>
        LET keep(word) == Survives(word, length)
            kept == SelectSeq(words, keep)
            fresh == _get_clique_list(
                         compute_graph(_init_nodes(words, length), FALSE), length)
        IN  /\ (raised = "") <=> (words # <<>> /\ ~fresh.raised)
            /\ raised = "" =>
                   /\ Range(cliques) = Range(fresh.cl)
                   /\ word_cliques =
                          [c \in DOMAIN cliques |->
                              [x \in DOMAIN cliques[c] |-> strip(kept[cliques[c][x] + 1])]]

\* a call that found cliques after an earlier call on the same object raised
C13_Witness == Returned /\ earlier = "raised" /\ Len(cliques) >= 1

\* C14 (as claimed): for every non-empty word list and every length L in
\* 1..26 with k = floor(26/L) >= 2, the search ends without raising an error.
C14_SearchReturnsNormally ==
    (CalledInRange /\ words # <<>> /\ num_words(length) >= 2) => raised = ""

====
